---- MODULE Spec2Model ----
(***************************************************************************)
(* The state-machine core of raiden/transfer/architecture.py:              *)
(*   - StateManager.dispatch, run step by step over a heap of State        *)
(*     objects, so that copies, aliases and in-place mutation are visible; *)
(*   - the balance-proof value objects and their construction checks.      *)
(***************************************************************************)
EXTENDS Integers, Sequences, FiniteSets, TLC

(***************************************************************************)
(* Bounds of the model.                                                    *)
(***************************************************************************)
\* longest batch handed to dispatch
MaxBatch == 2
\* changes a manager applies in one behaviour
MaxLog == 3

\* the StateManager instances, and the contexts (callers) that run dispatch
Mgr == {1, 2}
Ctx == {1, 2}

(***************************************************************************)
(* Values.  Every Python value carries its type, so that typecheck is a    *)
(* test of the type and None is a value like any other.                    *)
(***************************************************************************)
NoneV == [type |-> "NoneType"]

\* a reference to the State object at address a of a heap
Ref(a) == [type |-> "State", addr |-> a]

\* a value that is neither None nor a State (a plain int)
NotAState == [type |-> "int"]

\* the value of a State tree: its fields, without the addresses
StateV(c, t) == [type |-> "State", counter |-> c, task |-> t]

Ev(n) == [type |-> "Event", name |-> n]

\* a value that is not an Event (a plain str)
NotAnEvent == [type |-> "str"]

TransitionResult(new_state, events) ==
    [type |-> "TransitionResult", new_state |-> new_state, events |-> events]

\* isinstance(value, expected), raising otherwise: TRUE when the check passes
typecheck(value, expected) == value.type = expected

\* the State tree below a reference, read off the heap
RECURSIVE Val(_, _)
Val(h, ref) ==
    IF ref.type # "State" THEN ref
    ELSE StateV(h[ref.addr].counter, Val(h, h[ref.addr].task))

\* a full copy of the tree below ref, built of new objects
RECURSIVE deepcopy(_, _)
deepcopy(h, ref) ==
    IF ref.type # "State" THEN [heap |-> h, ref |-> ref]
    ELSE LET sub == deepcopy(h, h[ref.addr].task)
             h2  == Append(sub.heap, [counter |-> h[ref.addr].counter, task |-> sub.ref])
         IN  [heap |-> h2, ref |-> Ref(Len(h2))]

(***************************************************************************)
(* The reducers.  A reducer is supplied by the caller; the model runs a    *)
(* family of them: one that builds new objects and one that mutates its    *)
(* argument in place, each with one way of breaking the result contract.   *)
(*   "Block": every node of the tree counts one more block (not            *)
(*            idempotent);                                                 *)
(*   "Init":  the root gets a task unless it has one (idempotent);         *)
(*   "Bad":   the reducer breaks its contract, in the way r.violation      *)
(*            names.                                                       *)
(***************************************************************************)
Changes == {"Block", "Init", "Bad"}

Violations == {"notTransitionResult", "noneState", "notState", "badEvent"}

\* the reducers run: each style with two of the violations
Reducers ==
    {[inplace |-> FALSE, violation |-> "notTransitionResult"],
     [inplace |-> FALSE, violation |-> "badEvent"],
     [inplace |-> TRUE, violation |-> "noneState"],
     [inplace |-> TRUE, violation |-> "notState"]}

\* the reducer as a function of values: R(v, c) of the claims
Fresh == StateV(0, NoneV)

BaseV(v) == IF v.type = "State" THEN v ELSE Fresh

RECURSIVE TickV(_)
TickV(v) == IF v.type # "State" THEN v ELSE StateV(v.counter + 1, TickV(v.task))

\* (defined for the changes that keep the contract)
R(v, c) ==
    LET b == BaseV(v) IN
    CASE c = "Block" ->
            [new_state |-> TickV(b),
             events |-> IF b.task.type = "State" THEN <<Ev("EventTick")>> ELSE <<>>]
      [] c = "Init" ->
            IF b.task.type = "State"
            THEN [new_state |-> b, events |-> <<>>]
            ELSE [new_state |-> StateV(b.counter, Fresh),
                  events |-> <<Ev("SendInit"), Ev("EventCreated")>>]

\* the reducer as it runs: on the heap, given a reference
RECURSIVE TickInPlace(_, _)
TickInPlace(h, ref) ==
    IF ref.type # "State" THEN h
    ELSE TickInPlace([h EXCEPT ![ref.addr].counter = @ + 1], h[ref.addr].task)

RECURSIVE TickCopy(_, _)
TickCopy(h, ref) ==
    IF ref.type # "State" THEN [heap |-> h, ref |-> ref]
    ELSE LET sub == TickCopy(h, h[ref.addr].task)
             h2  == Append(sub.heap, [counter |-> h[ref.addr].counter + 1, task |-> sub.ref])
         IN  [heap |-> h2, ref |-> Ref(Len(h2))]

\* the reducer's view of an absent state: a new empty root
BaseRef(h, s) ==
    IF s.type = "State" THEN [heap |-> h, ref |-> s]
    ELSE LET h2 == Append(h, [counter |-> 0, task |-> NoneV])
         IN  [heap |-> h2, ref |-> Ref(Len(h2))]

ViolatingResult(r, s) ==
    CASE r.violation = "notTransitionResult" -> NoneV
      [] r.violation = "noneState" -> TransitionResult(NoneV, <<>>)
      [] r.violation = "notState"  -> TransitionResult(NotAState, <<>>)
      [] OTHER -> TransitionResult(s, <<Ev("EventTick"), NotAnEvent>>)

state_transition_call(r, h, s, c) ==
    IF c = "Bad" THEN [heap |-> h, result |-> ViolatingResult(r, s)]
    ELSE
    LET b    == BaseRef(h, s)
        a    == b.ref.addr
        had  == b.heap[a].task.type = "State"
    IN
    IF c = "Block"
    THEN LET evs == IF had THEN <<Ev("EventTick")>> ELSE <<>> IN
         IF r.inplace
         THEN [heap |-> TickInPlace(b.heap, b.ref),
               result |-> TransitionResult(b.ref, evs)]
         ELSE LET t == TickCopy(b.heap, b.ref)
              IN  [heap |-> t.heap, result |-> TransitionResult(t.ref, evs)]
    ELSE IF had
         THEN [heap |-> b.heap, result |-> TransitionResult(b.ref, <<>>)]
         ELSE LET h2   == Append(b.heap, [counter |-> 0, task |-> NoneV])
                  task == Ref(Len(h2))
                  evs  == <<Ev("SendInit"), Ev("EventCreated")>>
              IN  IF r.inplace
                  THEN [heap |-> [h2 EXCEPT ![a].task = task],
                        result |-> TransitionResult(b.ref, evs)]
                  ELSE LET h3 == Append(h2, [counter |-> h2[a].counter, task |-> task])
                       IN  [heap |-> h3,
                            result |-> TransitionResult(Ref(Len(h3)), evs)]

(***************************************************************************)
(* The state.                                                              *)
(***************************************************************************)
VARIABLES
    heap,              \* per manager: the State objects, by address
    state_transition,  \* StateManager.state_transition
    current_state,     \* StateManager.current_state: a reference or None
    pc,                \* per context: "idle", "loop", "returned", "raised"
    state_changes,     \* dispatch's argument
    next_state,        \* dispatch's local
    events,            \* dispatch's local
    iteration,         \* dispatch's local: the last result of the reducer
    position,          \* the loop's place in state_changes: rounds begun
    steps,             \* the value of next_state after each round of the call
    returned,          \* what the last call returned: (state, events)
    pre,               \* the reference and value of current_state at the call
    invoked,           \* how often the call has invoked the reducer
    retained,          \* per manager: the snapshots it has published so far
    log,               \* per manager: the changes of its completed batches
    origin,            \* per manager: the state it was constructed with
    base,              \* per manager: where in manager 1's log it began
    snapshot,          \* the last snapshot taken of manager 1
    target,            \* per context: the manager it calls dispatch on
    handed,            \* per round of the call: the object given to the
                       \* reducer and the object it returned
    bp_args,           \* the arguments a balance proof is constructed with
    bp,                \* the balance proof constructed of them, or the error
    bp_prev,           \* the balance proof as it was before bp
    bp_assigned,       \* the last attribute assignment to bp: (field, value)
    sme_args,          \* the arguments a SendMessageEvent is constructed with
    sme,               \* the event constructed of them, or the error
    sme_prev,          \* the event constructed before sme
    sme_raised,        \* the error of the last assignment to a field of sme
    tr_args,           \* the operands of a comparison of a TransitionResult
    tr_out,            \* what == and != returned for them
    soe_args,          \* the messages a SuccessOrError is constructed with
    soe,               \* the SuccessOrError constructed of them
    soe_out,           \* what its properties returned
    rar_args,          \* return_after_retries' arguments
    rar_pc,            \* its position: "idle", "loop", "done"
    rar_requests,      \* the outcomes of the requests it has issued
    rar_durations,     \* its local `durations`
    rar_result         \* what it returned or raised

bp_vars == <<bp_args, bp, bp_prev, bp_assigned>>

sme_vars == <<sme_args, sme, sme_prev, sme_raised>>

tr_vars == <<tr_args, tr_out>>

soe_vars == <<soe_args, soe, soe_out>>

rar_vars == <<rar_args, rar_pc, rar_requests, rar_durations, rar_result>>

vars == <<heap, state_transition, current_state, pc, state_changes, next_state,
          events, iteration, position, steps, returned, pre, invoked, retained, log, origin,
          base, snapshot, target, handed, bp_vars, sme_vars, tr_vars, soe_vars, rar_vars>>

\* the variables of dispatch, and those of the value objects
dispatch_vars == <<heap, state_transition, current_state, pc, state_changes,
                   next_state, events, iteration, position, steps, returned,
                   pre, invoked, retained, log, origin, base, snapshot, target,
                   handed>>

value_vars == <<bp_vars, sme_vars, tr_vars, soe_vars, rar_vars>>

\* the manager a context's call of dispatch is bound to
self(t) == target[t]

\* the batches a caller may hand to dispatch, the empty one included
RECURSIVE SeqsUpTo(_, _)
SeqsUpTo(S, n) ==
    IF n = 0 THEN {<<>>}
    ELSE LET shorter == SeqsUpTo(S, n - 1)
         IN  shorter \cup {Append(s, x) : s \in {q \in shorter : Len(q) = n - 1}, x \in S}

Batches == SeqsUpTo(Changes, MaxBatch)

\* the batches context t may hand to its manager: the node's owner any
\* batch, a recovering manager the next changes of the node's log
Offered(t) ==
    IF self(t) = 1
    THEN {b \in Batches : Len(log[1]) + Len(b) <= MaxLog}
    ELSE LET done == base[self(t)] + Len(log[self(t)])
         IN  {SubSeq(log[1], done + 1, done + k) :
                 k \in 1..IF Len(log[1]) - done < MaxBatch
                          THEN Len(log[1]) - done ELSE MaxBatch}

\* dispatch's locals when no call is running
NoReturn == [type |-> "NoReturn"]

NoCall == [ref |-> NoneV, val |-> NoneV, mark |-> 0]

\* a local that has not been assigned
Unbound == [type |-> "unbound"]

\* what time.time() may measure for the copy
Durations == {"fast", "slow"}

\* a State tree written to a heap as new objects (a snapshot being loaded)
RECURSIVE Load(_, _)
Load(h, v) ==
    IF v.type # "State" THEN [heap |-> h, ref |-> v]
    ELSE LET sub == Load(h, v.task)
             h2  == Append(sub.heap, [counter |-> v.counter, task |-> sub.ref])
         IN  [heap |-> h2, ref |-> Ref(Len(h2))]

\* the state a node starts from: none (a manager constructed with a state
\* is one started from a snapshot)
InitialStates == {NoneV}

(***************************************************************************)
(* Construction.  Manager 1 is the node; manager 2 is down until it is     *)
(* started from a snapshot of manager 1.                                   *)
(***************************************************************************)
InitManagers(r, v, bound) ==
        LET ld == Load(<<>>, v) IN
        /\ target = bound
        /\ handed = [t \in Ctx |-> <<>>]
        /\ heap = [m \in Mgr |-> IF m = 1 THEN ld.heap ELSE <<>>]
        /\ state_transition = [m \in Mgr |-> r]
        /\ current_state = [m \in Mgr |-> IF m = 1 THEN ld.ref ELSE NoneV]
        /\ pc = [t \in Ctx |-> IF bound[t] = 1 THEN "idle" ELSE "down"]
        /\ state_changes = [t \in Ctx |-> <<>>]
        /\ next_state = [t \in Ctx |-> NoneV]
        /\ events = [t \in Ctx |-> <<>>]
        /\ iteration = [t \in Ctx |-> Unbound]
        /\ position = [t \in Ctx |-> 0]
        /\ steps = [t \in Ctx |-> <<>>]
        /\ returned = [t \in Ctx |-> NoReturn]
        /\ pre = [t \in Ctx |-> NoCall]
        /\ invoked = [t \in Ctx |-> 0]
        /\ retained = [m \in Mgr |-> {}]
        /\ log = [m \in Mgr |-> <<>>]
        /\ origin = [m \in Mgr |-> v]
        /\ base = [m \in Mgr |-> 0]
        /\ snapshot = [val |-> v, pos |-> 0]

\* each context calls a manager of its own
InitDispatch(r, v) == InitManagers(r, v, [t \in Ctx |-> t])

\* no value object is under construction
NotConstructed == [type |-> "NoneType"]

NoBalanceProof ==
    /\ bp_args = NotConstructed
    /\ bp = NotConstructed
    /\ bp_prev = NotConstructed
    /\ bp_assigned = NotConstructed

NoSendMessageEvent ==
    /\ sme_args = NotConstructed
    /\ sme = NotConstructed
    /\ sme_prev = NotConstructed
    /\ sme_raised = NotConstructed

NoComparison ==
    /\ tr_args = NotConstructed
    /\ tr_out = NotConstructed

NoSuccessOrError ==
    /\ soe_args = NotConstructed
    /\ soe = NotConstructed
    /\ soe_out = NotConstructed

NoRequests ==
    /\ rar_args = NotConstructed
    /\ rar_pc = "idle"
    /\ rar_requests = <<>>
    /\ rar_durations = 0
    /\ rar_result = NotConstructed

InitValues ==
    /\ NoBalanceProof
    /\ NoSendMessageEvent
    /\ NoComparison
    /\ NoSuccessOrError
    /\ NoRequests

Init ==
    /\ \E r \in Reducers, v \in InitialStates : InitDispatch(r, v)
    /\ InitValues

(***************************************************************************)
(* StateManager.dispatch.                                                  *)
(***************************************************************************)
\* the owner serialises the calls: none starts while another runs
Serialized(t) == \A u \in Ctx : pc[u] # "loop"

\* self.current_state, as dispatch reads it
ReadCurrentState(m) == current_state[m]

\* log.debug(...): the duration goes to the log and nowhere else
log_debug(duration) == TRUE

\* the check for the empty batch left out
NeverEmpty(batch) == FALSE

\* `not state_changes`
IsEmpty(batch) == batch = <<>>

\* the current state handed on as it is, without the copy
NotCopied(m) == [heap |-> heap[m], ref |-> ReadCurrentState(m)]

\* deepcopy(self.current_state) on the manager's heap
Copied(m) == deepcopy(heap[m], ReadCurrentState(m))

\* one list shared by the calls (a mutable default), never emptied
StaleEvents(t) == IF returned[t].type = "tuple" THEN returned[t].events ELSE <<>>

\* events: List[List[Event]] = list()
InitialEvents(t) == <<>>

\* the entry of dispatch: the empty batch raises, any other is begun on a
\* copy of the current state; there is no lock to take
dispatch(t, batch) ==
    LET m  == self(t)
        cp == Copied(m)
        was == [ref |-> current_state[m], val |-> Val(heap[m], current_state[m]),
                mark |-> Len(heap[m])]
    IN
    /\ pc[t] \in {"idle", "returned", "raised"}
    /\ state_changes' = [state_changes EXCEPT ![t] = batch]
    /\ pre' = [pre EXCEPT ![t] = was]
    /\ invoked' = [invoked EXCEPT ![t] = 0]
    /\ returned' = [returned EXCEPT ![t] = NoReturn]
    /\ position' = [position EXCEPT ![t] = 0]
    /\ steps' = [steps EXCEPT ![t] = <<>>]
    /\ handed' = [handed EXCEPT ![t] = <<>>]
    /\ IF IsEmpty(batch)
       THEN /\ pc' = [pc EXCEPT ![t] = "raised"]
            /\ UNCHANGED <<heap, next_state, events, retained>>
       ELSE /\ \E duration \in Durations : log_debug(duration)
            /\ pc' = [pc EXCEPT ![t] = "loop"]
            /\ heap' = [heap EXCEPT ![m] = cp.heap]
            /\ next_state' = [next_state EXCEPT ![t] = cp.ref]
            /\ events' = [events EXCEPT ![t] = InitialEvents(t)]
            /\ retained' = [retained EXCEPT ![m] =
                    IF was.ref.type = "State"
                    THEN @ \cup {[ref |-> was.ref, val |-> was.val]} ELSE @]
    /\ UNCHANGED <<state_transition, current_state, iteration, log,
                   origin, base, snapshot, target>>
    /\ UNCHANGED value_vars

\* the heap once a call has raised: the objects the call allocated are out
\* of reach and are reclaimed, the others are as the call left them
Unwound(h, mark) == SubSeq(h, 1, mark)

\* the typechecks without the one of the events
ResultOkNoEventCheck(res) ==
    IF ~typecheck(res, "TransitionResult") THEN FALSE
    ELSE typecheck(res.new_state, "State")

\* the three typechecks of the loop body
ResultOk(res) ==
    IF ~typecheck(res, "TransitionResult") THEN FALSE
    ELSE /\ \A i \in 1..Len(res.events) : typecheck(res.events[i], "Event")
         /\ typecheck(res.new_state, "State")

\* the batch taken from its end
ReversedChange(t, i) == state_changes[t][Len(state_changes[t]) - i + 1]

\* the change the loop hands to the reducer in its i-th round
LoopChange(t, i) == state_changes[t][i]

\* every round given self.current_state, not the state of the round before
StaleLoopState(t) == current_state[self(t)]

\* the state the loop hands to the reducer
LoopState(t) == next_state[t]

\* events.extend(iteration.events)
ExtendEvents(evs, new) == evs \o new

\* events.append(iteration.events)
AppendEvents(evs, new) == Append(evs, new)

\* the heap when the call of t has raised: a manager with one caller has
\* the call's objects reclaimed
Reclaimed(t, h) ==
    IF \A u \in Ctx \ {t} : self(u) # self(t) THEN Unwound(h, pre[t].mark) ELSE h

\* the assignment left out: every round begins from the first copy
NextStateKept(t, res) == next_state[t]

\* next_state = iteration.new_state
NextState(t, res) == res.new_state

\* the state of the round published at once
PublishedInLoop(t, new_state) == new_state

\* self.current_state after a round of the loop: the loop assigns its
\* locals only
LoopCurrentState(t, new_state) == current_state[self(t)]

\* one round of the loop: the reducer is invoked, its result is checked and
\* taken over, or the call raises
dispatch_loop(t) ==
    LET m   == self(t)
        i   == position[t] + 1
        out == state_transition_call(state_transition[m], heap[m], LoopState(t),
                                     LoopChange(t, i))
    IN
    /\ pc[t] = "loop"
    /\ i <= Len(state_changes[t])
    /\ position' = [position EXCEPT ![t] = i]
    /\ invoked' = [invoked EXCEPT ![t] = @ + 1]
    /\ IF ResultOk(out.result)
       THEN /\ heap' = [heap EXCEPT ![m] = out.heap]
            /\ iteration' = [iteration EXCEPT ![t] = out.result]
            /\ events' = [events EXCEPT ![t] = AppendEvents(@, out.result.events)]
            /\ next_state' = [next_state EXCEPT ![t] = NextState(t, out.result)]
            /\ steps' = [steps EXCEPT ![t] =
                    Append(@, Val(out.heap, out.result.new_state))]
            /\ handed' = [handed EXCEPT ![t] =
                    Append(@, [given |-> LoopState(t),
                               returned |-> out.result.new_state])]
            /\ current_state' = [current_state EXCEPT ![m] =
                    LoopCurrentState(t, out.result.new_state)]
            /\ pc' = pc
       ELSE /\ heap' = [heap EXCEPT ![m] = Reclaimed(t, out.heap)]
            /\ current_state' = current_state
            /\ iteration' = [iteration EXCEPT ![t] = Unbound]
            /\ events' = [events EXCEPT ![t] = <<>>]
            /\ next_state' = [next_state EXCEPT ![t] = NoneV]
            /\ steps' = steps
            /\ handed' = handed
            /\ pc' = [pc EXCEPT ![t] = "raised"]
    /\ UNCHANGED <<state_transition, state_changes, returned, pre,
                   retained, log, origin, base, snapshot, target>>
    /\ UNCHANGED value_vars

\* the assignment to self.current_state left out
NotPublished(t) == current_state[self(t)]

\* the state dispatch publishes
Published(t) == next_state[t]

\* after the loop: the final state is published and returned with the
\* events; the assertion, and a use of `iteration` before any round has
\* assigned it, raise
dispatch_return(t) ==
    LET m == self(t) IN
    /\ pc[t] = "loop"
    /\ position[t] = Len(state_changes[t])
    /\ IF next_state[t] = NoneV
       THEN /\ pc' = [pc EXCEPT ![t] = "raised"]
            /\ UNCHANGED <<current_state, returned, log>>
       ELSE /\ current_state' = [current_state EXCEPT ![m] = Published(t)]
            /\ IF iteration[t] = Unbound
               THEN /\ pc' = [pc EXCEPT ![t] = "raised"]
                    /\ UNCHANGED <<returned, log>>
               ELSE /\ returned' = [returned EXCEPT ![t] =
                            [type |-> "tuple", state |-> iteration[t].new_state,
                             events |-> events[t]]]
                    /\ log' = [log EXCEPT ![m] = @ \o state_changes[t]]
                    /\ pc' = [pc EXCEPT ![t] = "returned"]
    /\ iteration' = [iteration EXCEPT ![t] = Unbound]
    /\ events' = [events EXCEPT ![t] = <<>>]
    /\ next_state' = [next_state EXCEPT ![t] = NoneV]
    /\ UNCHANGED <<heap, state_transition, state_changes, position, steps, pre,
                   invoked, retained, origin, base, snapshot, target, handed>>
    /\ UNCHANGED value_vars

(***************************************************************************)
(* The write-ahead log's part: a snapshot of the node's state, and a new   *)
(* manager constructed from it.                                            *)
(***************************************************************************)
TakeSnapshot ==
    /\ snapshot' = [val |-> Val(heap[1], current_state[1]), pos |-> Len(log[1])]
    /\ snapshot' # snapshot
    /\ UNCHANGED <<heap, state_transition, current_state, pc, state_changes,
                   next_state, events, iteration, position, steps, returned,
                   pre, invoked, retained, log, origin, base, target, handed>>
    /\ UNCHANGED value_vars

\* callable(state_transition): the reducers are the functions; every value
\* (None, an int, a State) is not one
callable(f) == f \in Reducers

NotCallable == [type |-> "ValueError",
                message |-> "state_transition must be a callable"]

\* StateManager(state_transition, current_state): manager m constructed
\* anew, or nothing constructed when __init__ raises
StateManagerInit(m, reducer, state) ==
    LET ld == Load(<<>>, state) IN
    IF ~callable(reducer)
    THEN UNCHANGED <<heap, state_transition, current_state>>
    ELSE /\ heap' = [heap EXCEPT ![m] = ld.heap]
         /\ state_transition' = [state_transition EXCEPT ![m] = reducer]
         /\ current_state' = [current_state EXCEPT ![m] = ld.ref]

Restart(t) ==
    LET m == self(t)
        reducer == state_transition[1]
    IN
    /\ m # 1
    /\ pc[t] # "idle"
    /\ StateManagerInit(m, reducer, snapshot.val)
    /\ IF ~callable(reducer)
       THEN /\ returned' = [returned EXCEPT ![t] = NotCallable]
            /\ UNCHANGED <<pc, state_changes, next_state, events, iteration,
                           position, steps, handed, pre, invoked, retained,
                           log, origin, base>>
       ELSE /\ pc' = [pc EXCEPT ![t] = "idle"]
            /\ state_changes' = [state_changes EXCEPT ![t] = <<>>]
            /\ next_state' = [next_state EXCEPT ![t] = NoneV]
            /\ events' = [events EXCEPT ![t] = <<>>]
            /\ iteration' = [iteration EXCEPT ![t] = Unbound]
            /\ position' = [position EXCEPT ![t] = 0]
            /\ steps' = [steps EXCEPT ![t] = <<>>]
            /\ handed' = [handed EXCEPT ![t] = <<>>]
            /\ returned' = [returned EXCEPT ![t] = NoReturn]
            /\ pre' = [pre EXCEPT ![t] = NoCall]
            /\ invoked' = [invoked EXCEPT ![t] = 0]
            /\ retained' = [retained EXCEPT ![m] = {}]
            /\ log' = [log EXCEPT ![m] = <<>>]
            /\ origin' = [origin EXCEPT ![m] = snapshot.val]
            /\ base' = [base EXCEPT ![m] = snapshot.pos]
    /\ UNCHANGED <<snapshot, target>>
    /\ UNCHANGED value_vars

Next ==
    \/ \E t \in Ctx : \E batch \in Offered(t) : Serialized(t) /\ dispatch(t, batch)
    \/ \E t \in Ctx : dispatch_loop(t)
    \/ \E t \in Ctx : dispatch_return(t)
    \/ TakeSnapshot
    \/ \E t \in Ctx : Restart(t)

Spec == Init /\ [][Next]_vars

(***************************************************************************)
(* The claims about dispatch.                                              *)
(***************************************************************************)
\* the left fold of R over a batch: the final state, and the events of each
\* change
RECURSIVE FoldState(_, _)
FoldState(v, cs) ==
    IF cs = <<>> THEN v ELSE FoldState(R(v, Head(cs)).new_state, Tail(cs))

RECURSIVE FoldEvents(_, _)
FoldEvents(v, cs) ==
    IF cs = <<>> THEN <<>>
    ELSE <<R(v, Head(cs)).events>> \o FoldEvents(R(v, Head(cs)).new_state, Tail(cs))

\* the value of a manager's current state
Current(m) == Val(heap[m], current_state[m])

\* a call has been made by t and its record is at hand
Called(t) == pc[t] \in {"loop", "returned", "raised"}

\* C1: a dispatch that returns has returned the left fold of the reducer
\* over its batch: the returned state and current_state are the fold's final
\* state, and the returned events are one entry per change, in order, each
\* the events of that change.
C1_DispatchIsLeftFold ==
    \A t \in Ctx : pc[t] = "returned" =>
        /\ Val(heap[self(t)], returned[t].state) = FoldState(pre[t].val, state_changes[t])
        /\ returned[t].events = FoldEvents(pre[t].val, state_changes[t])
        /\ Len(returned[t].events) = Len(state_changes[t])
        /\ Current(self(t)) = FoldState(pre[t].val, state_changes[t])

C1_Witness ==
    \E t \in Ctx :
        /\ pc[t] = "returned"
        /\ state_changes[t] = <<"Init", "Block">>
        /\ returned[t].events =
               << <<Ev("SendInit"), Ev("EventCreated")>>, <<Ev("EventTick")>> >>
        /\ pre[t].ref.type = "State"
        /\ Current(self(t)) = StateV(pre[t].val.counter + 1, StateV(1, NoneV))

\* C2: a dispatch of the empty batch has raised at once: the reducer was
\* never invoked, no copy was made or published, nothing was returned and
\* current_state is the object, with the value, it was before the call.
C2_EmptyBatchRaises ==
    \A t \in Ctx : (Called(t) /\ state_changes[t] = <<>>) =>
        /\ pc[t] = "raised"
        /\ invoked[t] = 0
        /\ returned[t] = NoReturn
        /\ current_state[self(t)] = pre[t].ref
        /\ Current(self(t)) = pre[t].val
        /\ Len(heap[self(t)]) = pre[t].mark

C2_Witness ==
    \E t \in Ctx :
        /\ pc[t] = "raised"
        /\ state_changes[t] = <<>>
        /\ pre[t].ref.type = "State"
        /\ current_state[self(t)] = pre[t].ref

\* the addresses of the tree below a reference
RECURSIVE Reach(_, _)
Reach(h, ref) ==
    IF ref.type # "State" THEN {} ELSE {ref.addr} \cup Reach(h, h[ref.addr].task)

\* C3: every object that was current_state when a dispatch began keeps its
\* value, field for field, during the call and after it has returned or
\* raised; and the state the loop works on shares no object with it.
C3_SnapshotNeverMutated ==
    \A m \in Mgr :
        /\ \A x \in retained[m] : Val(heap[m], x.ref) = x.val
        /\ \A t \in Ctx : (self(t) = m /\ pc[t] = "loop") =>
               \A x \in retained[m] :
                   Reach(heap[m], next_state[t]) \cap Reach(heap[m], x.ref) = {}

C3_Witness ==
    \E t \in Ctx :
        /\ pc[t] = "returned"
        /\ state_transition[self(t)].inplace
        /\ pre[t].ref.type = "State"
        /\ Val(heap[self(t)], pre[t].ref) = pre[t].val
        /\ Current(self(t)) # pre[t].val

\* C4: two managers with the same reducer that dispatched the same batch
\* from equal states returned equal states and equal events and hold equal
\* current states; and two that were constructed with equal states and have
\* applied the same changes hold equal current states.
C4_Deterministic ==
    /\ \A t, u \in Ctx :
          ( /\ pc[t] = "returned" /\ pc[u] = "returned"
            /\ state_transition[self(t)] = state_transition[self(u)]
            /\ pre[t].val = pre[u].val
            /\ state_changes[t] = state_changes[u] ) =>
              /\ Val(heap[self(t)], returned[t].state) = Val(heap[self(u)], returned[u].state)
              /\ returned[t].events = returned[u].events
              /\ Current(self(t)) = Current(self(u))
    /\ \A m, n \in Mgr :
          ( /\ state_transition[m] = state_transition[n]
            /\ origin[m] = origin[n]
            /\ log[m] = log[n] ) => Current(m) = Current(n)

C4_Witness ==
    \E t, u \in Ctx :
        /\ t # u
        /\ pc[t] = "returned" /\ pc[u] = "returned"
        /\ pre[t].val = pre[u].val
        /\ state_changes[t] = state_changes[u]
        /\ Len(state_changes[t]) = 2
        /\ origin[self(t)] = origin[self(u)]
        /\ log[self(t)] = log[self(u)]
        /\ Current(self(t)) # origin[self(t)]

\* the changes of manager 1's log that a manager started at base[m] has
\* still to apply
LogTail(m) == SubSeq(log[1], base[m] + 1, Len(log[1]))

\* C5: a manager started from a snapshot of manager 1 that has applied the
\* whole tail of changes since the snapshot, in whatever batches, holds a
\* current state equal to manager 1's.
C5_ReplayBatchingInvariant ==
    \A m \in Mgr : (m # 1 /\ log[m] = LogTail(m)) => Current(m) = Current(1)

C5_Witness ==
    \E t \in Ctx :
        /\ self(t) = 2 /\ pc[t] = "returned" /\ pc[1] = "returned"
        /\ base[2] = 1
        /\ log[2] = LogTail(2)
        /\ Len(log[2]) = 2
        /\ Len(state_changes[t]) = 1
        /\ Len(state_changes[1]) = 2
        /\ Current(2) # origin[2]

\* the place of the first change of a batch that breaks the contract
FirstBad(cs) ==
    CHOOSE k \in 1..Len(cs) : cs[k] = "Bad" /\ \A j \in 1..(k - 1) : cs[j] # "Bad"

\* C6: a dispatch whose batch holds a change ck at which the reducer breaks
\* its contract raises at ck: the reducer is invoked for the changes up to ck
\* and for none after it, and the call returns nothing.
C6_ViolationAborts ==
    \A t \in Ctx :
        (Called(t) /\ \E k \in 1..Len(state_changes[t]) : state_changes[t][k] = "Bad") =>
            LET k == FirstBad(state_changes[t]) IN
            /\ invoked[t] <= k
            /\ pc[t] # "returned"
            /\ returned[t] = NoReturn
            /\ (invoked[t] = k) <=> (pc[t] = "raised")

C6_Witness ==
    \E t \in Ctx :
        /\ pc[t] = "raised"
        /\ state_changes[t] = <<"Bad", "Block">>
        /\ invoked[t] = 1
        /\ state_transition[self(t)].violation = "badEvent"
        /\ pre[t].ref.type = "State"

\* the reducer is idempotent for c at v, a state that results from c
Idempotent(c, v) == R(v, c).new_state = v

\* all the changes manager m's state has seen, those before its snapshot
\* included
History(m) == SubSeq(log[1], 1, base[m]) \o log[m]

\* the changes applied before the call of t
Prior(t) ==
    IF pc[t] = "returned"
    THEN SubSeq(History(self(t)), 1, Len(History(self(t))) - Len(state_changes[t]))
    ELSE History(self(t))

\* C7: when a change the reducer is idempotent for is delivered again, right
\* after itself in a batch or first in the next dispatch, the state after
\* the second application equals the state after the first, and that is the
\* state a returning call publishes.
C7_IdempotentRedelivery ==
    \A t \in Ctx : pc[t] \in {"loop", "returned"} =>
        /\ \A i \in 1..(Len(steps[t]) - 1) :
              ( /\ state_changes[t][i] = state_changes[t][i + 1]
                /\ Idempotent(state_changes[t][i], steps[t][i]) ) =>
                  steps[t][i + 1] = steps[t][i]
        /\ ( /\ Len(steps[t]) >= 1
             /\ Prior(t) # <<>>
             /\ Prior(t)[Len(Prior(t))] = state_changes[t][1]
             /\ Idempotent(state_changes[t][1], pre[t].val) ) =>
               steps[t][1] = pre[t].val
        /\ pc[t] = "returned" => Current(self(t)) = steps[t][Len(steps[t])]

C7_Witness ==
    /\ pc[1] = "returned" /\ pc[2] = "returned"
    /\ log[1] = <<"Init", "Init">>
    /\ state_changes[1] = <<"Init">>
    /\ Current(1) = pre[1].val
    /\ state_changes[2] = <<"Init", "Init">>
    /\ steps[2][2] = steps[2][1]

(***************************************************************************)
(* The balance proofs.  The bounds of the checks are 2^64 - 1 and          *)
(* 2^256 - 1, so an integer is written as its distance from 0, 2^64 or     *)
(* 2^256: Num("2^64", -1) is 2^64 - 1.  The distances used are small, so   *)
(* the order of two integers is that of their bases and then of their      *)
(* distances.                                                              *)
(***************************************************************************)
Num(b, d) == [type |-> "int", base |-> b, off |-> d]

Rank(b) == CASE b = "0" -> 0 [] b = "2^64" -> 1 [] b = "2^256" -> 2

Less(a, b) == Rank(a.base) < Rank(b.base) \/ (a.base = b.base /\ a.off < b.off)

LessEq(a, b) == a = b \/ Less(a, b)

Zero == Num("0", 0)

UINT64_MAX == Num("2^64", -1)

UINT256_MAX == Num("2^256", -1)

\* n bytes, each of value b
Bytes(n, b) == [type |-> "bytes", data |-> [i \in 1..n |-> b]]

len(x) == Len(x.data)

EMPTY_BALANCE_HASH == Bytes(32, 0)

\* the canonical hash: one digest for each (transferred_amount,
\* locked_amount, locksroot), different for different data
hash_balance_data(transferred_amount, locked_amount, locksroot) ==
    [type |-> "bytes",
     digest |-> <<transferred_amount, locked_amount, locksroot>>]

CanonicalIdentifier(chain, network, channel) ==
    [chain_identifier |-> chain, token_network_address |-> network,
     channel_identifier |-> channel]

\* CanonicalIdentifier.validate: TRUE when it does not raise
validate(cid) ==
    /\ typecheck(cid.channel_identifier, "int")
    /\ LessEq(Zero, cid.channel_identifier)
    /\ LessEq(cid.channel_identifier, UINT256_MAX)

ValueError(message) == [type |-> "ValueError", message |-> message]

\* the hash computed of the amounts in the wrong order
UnsignedBalanceHashSwapped(a) ==
    hash_balance_data(a.locked_amount, a.transferred_amount, a.locksroot)

\* the hash BalanceProofUnsignedState stores
UnsignedBalanceHash(a) ==
    hash_balance_data(a.transferred_amount, a.locked_amount, a.locksroot)

\* BalanceProofUnsignedState(...): the object, or the error __post_init__
\* raises
BalanceProofUnsignedState(a) ==
    IF ~( /\ typecheck(a.nonce, "int")
          /\ typecheck(a.transferred_amount, "int")
          /\ typecheck(a.locked_amount, "int")
          /\ typecheck(a.locksroot, "bytes") )
    THEN ValueError("typecheck")
    ELSE IF LessEq(a.nonce, Zero)
    THEN ValueError("nonce cannot be zero or negative")
    ELSE IF Less(UINT64_MAX, a.nonce)
    THEN ValueError("nonce is too large")
    ELSE IF Less(a.transferred_amount, Zero)
    THEN ValueError("transferred_amount cannot be negative")
    ELSE IF Less(UINT256_MAX, a.transferred_amount)
    THEN ValueError("transferred_amount is too large")
    ELSE IF len(a.locksroot) # 32
    THEN ValueError("locksroot must have length 32")
    ELSE IF ~validate(a.canonical_identifier)
    THEN ValueError("canonical_identifier")
    ELSE [type |-> "BalanceProofUnsignedState",
          nonce |-> a.nonce,
          transferred_amount |-> a.transferred_amount,
          locked_amount |-> a.locked_amount,
          locksroot |-> a.locksroot,
          canonical_identifier |-> a.canonical_identifier,
          balance_hash |-> UnsignedBalanceHash(a)]

\* the bound itself taken for too large
SignedNonceTooLargeInclusive(a) == LessEq(UINT64_MAX, a.nonce)

\* self.nonce > UINT64_MAX
SignedNonceTooLarge(a) == Less(UINT64_MAX, a.nonce)

\* the caller's hash kept when one is given
SignedBalanceHashTrusted(a) ==
    IF a.balance_hash # EMPTY_BALANCE_HASH THEN a.balance_hash
    ELSE hash_balance_data(a.transferred_amount, a.locked_amount, a.locksroot)

\* the hash BalanceProofSignedState stores
SignedBalanceHash(a) ==
    hash_balance_data(a.transferred_amount, a.locked_amount, a.locksroot)

\* any signature of at least 65 bytes let through
SignatureInvalidShorter(a) == len(a.signature) < 65

\* len(self.signature) != 65
SignatureInvalid(a) == len(a.signature) # 65

\* BalanceProofSignedState(...): the object, or the error __post_init__
\* raises
BalanceProofSignedState(a) ==
    IF ~( /\ typecheck(a.nonce, "int")
          /\ typecheck(a.transferred_amount, "int")
          /\ typecheck(a.locked_amount, "int")
          /\ typecheck(a.locksroot, "bytes")
          /\ typecheck(a.message_hash, "bytes")
          /\ typecheck(a.signature, "bytes")
          /\ typecheck(a.sender, "bytes") )
    THEN ValueError("typecheck")
    ELSE IF LessEq(a.nonce, Zero)
    THEN ValueError("nonce cannot be zero or negative")
    ELSE IF SignedNonceTooLarge(a)
    THEN ValueError("nonce is too large")
    ELSE IF Less(a.transferred_amount, Zero)
    THEN ValueError("transferred_amount cannot be negative")
    ELSE IF Less(UINT256_MAX, a.transferred_amount)
    THEN ValueError("transferred_amount is too large")
    ELSE IF len(a.locksroot) # 32
    THEN ValueError("locksroot must have length 32")
    ELSE IF len(a.message_hash) # 32
    THEN ValueError("message_hash is an invalid hash")
    ELSE IF SignatureInvalid(a)
    THEN ValueError("signature is an invalid signature")
    ELSE IF ~validate(a.canonical_identifier)
    THEN ValueError("canonical_identifier")
    ELSE [type |-> "BalanceProofSignedState",
          nonce |-> a.nonce,
          transferred_amount |-> a.transferred_amount,
          locked_amount |-> a.locked_amount,
          locksroot |-> a.locksroot,
          message_hash |-> a.message_hash,
          signature |-> a.signature,
          sender |-> a.sender,
          canonical_identifier |-> a.canonical_identifier,
          balance_hash |-> SignedBalanceHash(a)]

(***************************************************************************)
(* The arguments the constructions are tried with.                         *)
(***************************************************************************)
Nonces ==
    {Num("0", -1), Zero, Num("0", 1), UINT64_MAX, Num("2^64", 0), UINT256_MAX}

Amounts ==
    {Num("0", -1), Zero, Num("0", 1), Num("2^64", 0), UINT256_MAX, Num("2^256", 0)}

Locksroots == {Bytes(32, 0), Bytes(32, 1), Bytes(31, 0), Bytes(33, 0), Bytes(0, 0)}

Identifiers ==
    {CanonicalIdentifier(1, "network", Num("0", 1)),
     CanonicalIdentifier(1, "network", UINT256_MAX),
     CanonicalIdentifier(1, "network", Num("2^256", 0))}

\* a digest of other amounts, passed by the caller
ForgedHash == hash_balance_data(Num("0", 1), Zero, Bytes(32, 0))

SuppliedHashes == {EMPTY_BALANCE_HASH, ForgedHash}

MessageHashes == {Bytes(32, 2), Bytes(31, 2)}

Signatures == {Bytes(65, 3), Bytes(64, 3), Bytes(66, 3)}

UnsignedArgs ==
    [variant : {"unsigned"}, nonce : Nonces, transferred_amount : Amounts,
     locked_amount : Amounts, locksroot : Locksroots,
     canonical_identifier : Identifiers, balance_hash : SuppliedHashes]

SignedArgs ==
    [variant : {"signed"}, nonce : Nonces, transferred_amount : Amounts,
     locked_amount : Amounts, locksroot : Locksroots,
     message_hash : MessageHashes, signature : Signatures,
     sender : {Bytes(20, 4)},
     canonical_identifier : Identifiers, balance_hash : SuppliedHashes]

Construct(a) ==
    IF a.variant = "unsigned" THEN BalanceProofUnsignedState(a)
    ELSE BalanceProofSignedState(a)

InitBP ==
    /\ InitDispatch(CHOOSE r \in Reducers : TRUE, NoneV)
    /\ bp_args \in UnsignedArgs \cup SignedArgs
    /\ bp = NotConstructed
    /\ bp_prev = NotConstructed
    /\ bp_assigned = NotConstructed
    /\ NoSendMessageEvent
    /\ NoComparison
    /\ NoSuccessOrError
    /\ NoRequests

ConstructUnsigned ==
    /\ bp = NotConstructed
    /\ bp_args.variant = "unsigned"
    /\ bp' = BalanceProofUnsignedState(bp_args)
    /\ UNCHANGED <<bp_args, bp_prev, bp_assigned>>
    /\ UNCHANGED <<dispatch_vars, sme_vars, tr_vars, soe_vars, rar_vars>>

ConstructSigned ==
    /\ bp = NotConstructed
    /\ bp_args.variant = "signed"
    /\ bp' = BalanceProofSignedState(bp_args)
    /\ UNCHANGED <<bp_args, bp_prev, bp_assigned>>
    /\ UNCHANGED <<dispatch_vars, sme_vars, tr_vars, soe_vars, rar_vars>>

\* the same fields again, with another value passed for balance_hash
ConstructAgain(h) ==
    /\ bp # NotConstructed
    /\ bp_prev = NotConstructed
    /\ h # bp_args.balance_hash
    /\ bp_prev' = bp
    /\ bp_args' = [bp_args EXCEPT !.balance_hash = h]
    /\ bp' = Construct(bp_args')
    /\ UNCHANGED bp_assigned
    /\ UNCHANGED <<dispatch_vars, sme_vars, tr_vars, soe_vars, rar_vars>>

NextBP ==
    \/ ConstructUnsigned
    \/ ConstructSigned
    \/ \E h \in SuppliedHashes : ConstructAgain(h)

SpecBP == InitBP /\ [][NextBP]_vars

(***************************************************************************)
(* The claims about the balance proofs.                                    *)
(***************************************************************************)
Constructed(x) == x.type \in {"BalanceProofUnsignedState", "BalanceProofSignedState"}

InUint256(n) == LessEq(Zero, n) /\ LessEq(n, UINT256_MAX)

\* the fields the two classes share are all within their ranges
CommonFieldsValid(a) ==
    /\ Less(Zero, a.nonce) /\ LessEq(a.nonce, UINT64_MAX)
    /\ InUint256(a.transferred_amount)
    /\ InUint256(a.locked_amount)
    /\ len(a.locksroot) = 32
    /\ validate(a.canonical_identifier)

\* C8: with 0 < nonce <= 2^64-1, both amounts in [0, 2^256-1], a locksroot
\* of 32 bytes and an identifier that validates, BalanceProofUnsignedState
\* is constructed, with the fields given and with balance_hash the canonical
\* hash of (transferred_amount, locked_amount, locksroot).
C8_ValidUnsignedConstructs ==
    ( /\ bp # NotConstructed
      /\ bp_args.variant = "unsigned"
      /\ CommonFieldsValid(bp_args) ) =>
        /\ bp.type = "BalanceProofUnsignedState"
        /\ bp.nonce = bp_args.nonce
        /\ bp.transferred_amount = bp_args.transferred_amount
        /\ bp.locked_amount = bp_args.locked_amount
        /\ bp.locksroot = bp_args.locksroot
        /\ bp.balance_hash =
               hash_balance_data(bp_args.transferred_amount, bp_args.locked_amount,
                                 bp_args.locksroot)

C8_Witness ==
    /\ bp.type = "BalanceProofUnsignedState"
    /\ bp_args.nonce = UINT64_MAX
    /\ bp_args.transferred_amount = UINT256_MAX
    /\ bp_args.locked_amount = Num("0", 1)
    /\ bp.balance_hash = hash_balance_data(UINT256_MAX, Num("0", 1), bp_args.locksroot)

\* the fields of the signed class alone are valid
SignedFieldsValid(a) ==
    a.variant = "signed" => (len(a.message_hash) = 32 /\ len(a.signature) = 65)

\* one of the conditions C9 names holds of the arguments
C9_Rejected(a) ==
    \/ LessEq(a.nonce, Zero)
    \/ Less(UINT64_MAX, a.nonce)
    \/ Less(a.transferred_amount, Zero)
    \/ Less(UINT256_MAX, a.transferred_amount)
    \/ len(a.locksroot) # 32
    \/ ~validate(a.canonical_identifier)

\* C9: a construction, unsigned or signed, with nonce <= 0, nonce > 2^64-1,
\* transferred_amount < 0, transferred_amount > 2^256-1, a locksroot not of
\* 32 bytes or an identifier that does not validate raises and yields no
\* object; with the other fields valid, nonce = 1, nonce = 2^64-1,
\* transferred_amount = 0 and transferred_amount = 2^256-1 are accepted.
C9_OutOfRangeRejected ==
    bp # NotConstructed =>
        /\ C9_Rejected(bp_args) => (bp.type = "ValueError" /\ ~Constructed(bp))
        /\ ( /\ bp_args.nonce \in {Num("0", 1), UINT64_MAX}
             /\ bp_args.transferred_amount \in {Zero, UINT256_MAX}
             /\ CommonFieldsValid(bp_args)
             /\ SignedFieldsValid(bp_args) ) => Constructed(bp)

C9_Witness ==
    /\ bp.type = "ValueError"
    /\ bp_args.variant = "signed"
    /\ bp_args.nonce = Num("2^64", 0)
    /\ InUint256(bp_args.transferred_amount)
    /\ InUint256(bp_args.locked_amount)
    /\ len(bp_args.locksroot) = 32
    /\ validate(bp_args.canonical_identifier)
    /\ SignedFieldsValid(bp_args)

\* C10: the balance_hash of a constructed balance proof, unsigned or signed,
\* is the canonical hash of its own amounts and locksroot whatever the
\* caller passed for it, so two constructions that agree on these have the
\* same balance_hash.
C10_BalanceHashRecomputed ==
    /\ Constructed(bp) =>
          bp.balance_hash =
              hash_balance_data(bp.transferred_amount, bp.locked_amount, bp.locksroot)
    /\ ( /\ Constructed(bp) /\ Constructed(bp_prev)
         /\ bp.transferred_amount = bp_prev.transferred_amount
         /\ bp.locked_amount = bp_prev.locked_amount
         /\ bp.locksroot = bp_prev.locksroot ) =>
           bp.balance_hash = bp_prev.balance_hash

C10_Witness ==
    /\ bp.type = "BalanceProofSignedState"
    /\ bp_prev.type = "BalanceProofSignedState"
    /\ bp_args.balance_hash = ForgedHash
    /\ bp.balance_hash # ForgedHash
    /\ bp.balance_hash = bp_prev.balance_hash

\* C11: a construction, unsigned or signed, whose locked_amount is negative
\* or greater than 2^256-1 raises a validation error and yields no object,
\* as one with such a transferred_amount does.
C11_LockedAmountRejected ==
    (bp # NotConstructed /\ ~InUint256(bp_args.locked_amount)) =>
        (bp.type = "ValueError" /\ ~Constructed(bp))

\* C12: a BalanceProofSignedState whose signature is not of 65 bytes or
\* whose message_hash is not of 32 bytes raises, whatever the other fields;
\* with a signature of 65 bytes, a message_hash of 32 bytes and the other
\* fields valid it is constructed, with the signature and message_hash given.
C12_SignedLengthsChecked ==
    (bp # NotConstructed /\ bp_args.variant = "signed") =>
        /\ (len(bp_args.signature) # 65 \/ len(bp_args.message_hash) # 32) =>
               (bp.type = "ValueError" /\ ~Constructed(bp))
        /\ ( /\ len(bp_args.signature) = 65
             /\ len(bp_args.message_hash) = 32
             /\ CommonFieldsValid(bp_args) ) =>
               /\ bp.type = "BalanceProofSignedState"
               /\ bp.signature = bp_args.signature
               /\ bp.message_hash = bp_args.message_hash

\* a signature one byte too long, all else valid, is refused
C12_Witness ==
    /\ bp.type = "ValueError"
    /\ bp.message = "signature is an invalid signature"
    /\ bp_args.variant = "signed"
    /\ len(bp_args.signature) = 66
    /\ len(bp_args.message_hash) = 32
    /\ CommonFieldsValid(bp_args)

(***************************************************************************)
(* Attribute assignment.  The two balance proofs are declared @dataclass,  *)
(* without frozen=True: `bp.field = value` stores the value and runs       *)
(* nothing else; __post_init__ has run once, at construction.              *)
(***************************************************************************)
\* the assignment refused and the object left as it was (frozen=True)
setattr_frozen(obj, field, value) == obj

\* obj.field = value
setattr(obj, field, value) == [obj EXCEPT ![field] = value]

\* the assignments tried on a balance proof
Assignments ==
    {<<"nonce", Zero>>, <<"nonce", Num("2^64", 0)>>,
     <<"transferred_amount", Num("0", -1)>>, <<"transferred_amount", Num("0", 1)>>,
     <<"locked_amount", Num("0", 1)>>, <<"locked_amount", Num("2^256", 0)>>,
     <<"locksroot", Bytes(31, 0)>>, <<"locksroot", Bytes(32, 1)>>,
     <<"balance_hash", ForgedHash>>, <<"balance_hash", EMPTY_BALANCE_HASH>>}

Assign(field, value) ==
    /\ Constructed(bp)
    /\ bp_assigned = NotConstructed
    /\ bp_prev' = bp
    /\ bp' = setattr(bp, field, value)
    /\ bp_assigned' = [field |-> field, value |-> value]
    /\ UNCHANGED bp_args
    /\ UNCHANGED <<dispatch_vars, sme_vars, tr_vars, soe_vars, rar_vars>>

NextBPAssign ==
    \/ ConstructUnsigned
    \/ ConstructSigned
    \/ \E a \in Assignments : Assign(a[1], a[2])

SpecBPAssign == InitBP /\ [][NextBPAssign]_vars

\* the invariants __post_init__ checks, and the derived hash
ConstructionInvariants(x) ==
    /\ Less(Zero, x.nonce) /\ LessEq(x.nonce, UINT64_MAX)
    /\ InUint256(x.transferred_amount)
    /\ len(x.locksroot) = 32
    /\ x.balance_hash = hash_balance_data(x.transferred_amount, x.locked_amount, x.locksroot)

AssignableFields == {"nonce", "transferred_amount", "locked_amount", "locksroot", "balance_hash"}

\* C13 as claimed: a balance proof that exists satisfies its construction
\* invariants and holds the hash of its own fields in every state, and none
\* of its five fields ever differs from what it was.
C13_Immutable ==
    Constructed(bp) =>
        /\ ConstructionInvariants(bp)
        /\ Constructed(bp_prev) => \A f \in AssignableFields : bp[f] = bp_prev[f]

\* C13, amended: a balance proof satisfies its construction invariants and
\* holds the hash of its own fields when construction returns and for as
\* long as nothing is assigned to it; an assignment to one of the five fields
\* is accepted, stores the value in that field and leaves every other field,
\* balance_hash included, as it was: it validates and recomputes nothing.
C13_ValidatedAtConstructionOnly ==
    /\ (Constructed(bp) /\ bp_assigned = NotConstructed) => ConstructionInvariants(bp)
    /\ bp_assigned # NotConstructed =>
          /\ Constructed(bp) /\ Constructed(bp_prev)
          /\ ConstructionInvariants(bp_prev)
          /\ bp[bp_assigned.field] = bp_assigned.value
          /\ \A f \in (DOMAIN bp_prev) \ {bp_assigned.field} : bp[f] = bp_prev[f]

\* a new transferred_amount under the hash of the old one
C13_Witness ==
    /\ Constructed(bp)
    /\ bp_assigned # NotConstructed
    /\ bp_assigned.field = "transferred_amount"
    /\ bp.transferred_amount = Num("0", -1)
    /\ bp.balance_hash = bp_prev.balance_hash
    /\ bp.balance_hash #
           hash_balance_data(bp.transferred_amount, bp.locked_amount, bp.locksroot)

(***************************************************************************)
(* SendMessageEvent: a frozen dataclass whose queue_identifier is no       *)
(* parameter of __init__ (init=False) and is set by __post_init__.         *)
(***************************************************************************)
\* the key of a queue of outbound messages
QueueIdentifier(recipient, canonical_identifier) ==
    [type |-> "QueueIdentifier", recipient |-> recipient,
     canonical_identifier |-> canonical_identifier]

\* a keyword argument the caller did not pass
Omitted == [type |-> "omitted"]

TypeError(message) == [type |-> "TypeError", message |-> message]

FrozenInstanceError(field) == [type |-> "FrozenInstanceError", field |-> field]

\* a queue for each message: the message identifier becomes part of the key
QueueIdentifierPerMessage(a) ==
    QueueIdentifier(a.recipient,
        [a.canonical_identifier EXCEPT
            !.channel_identifier = Num("0", a.message_identifier)])

\* QueueIdentifier(recipient=self.recipient,
\*                 canonical_identifier=self.canonical_identifier)
QueueIdentifierOf(a) == QueueIdentifier(a.recipient, a.canonical_identifier)

\* SendMessageEvent(...): the event, or the error of the call
SendMessageEvent(a) ==
    IF a.queue_identifier # Omitted
    THEN TypeError("__init__() got an unexpected keyword argument 'queue_identifier'")
    ELSE [type |-> "SendMessageEvent",
          recipient |-> a.recipient,
          canonical_identifier |-> a.canonical_identifier,
          message_identifier |-> a.message_identifier,
          queue_identifier |-> QueueIdentifierOf(a)]

\* obj.field = value on a frozen dataclass: the object as it is left, and
\* the error raised
frozen_setattr(obj, field, value) ==
    [obj |-> obj, raised |-> FrozenInstanceError(field)]

Recipients == {"alice", "bob"}

MessageIDs == {1, 2}

\* a queue identifier a caller might try to pass or to assign
OtherQueue == QueueIdentifier("carol", CanonicalIdentifier(1, "network", Num("0", 1)))

SendMessageEventArgs ==
    [recipient : Recipients, canonical_identifier : Identifiers,
     message_identifier : MessageIDs, queue_identifier : {Omitted, OtherQueue}]

\* the assignments tried on an event
EventAssignments ==
    {<<"queue_identifier", OtherQueue>>, <<"recipient", "carol">>,
     <<"message_identifier", 3>>}

InitSME ==
    /\ InitDispatch(CHOOSE r \in Reducers : TRUE, NoneV)
    /\ NoBalanceProof
    /\ sme_args \in SendMessageEventArgs
    /\ sme = NotConstructed
    /\ sme_prev = NotConstructed
    /\ sme_raised = NotConstructed
    /\ NoComparison
    /\ NoSuccessOrError
    /\ NoRequests

ConstructEvent ==
    /\ sme = NotConstructed
    /\ sme' = SendMessageEvent(sme_args)
    /\ UNCHANGED <<sme_args, sme_prev, sme_raised>>
    /\ UNCHANGED <<dispatch_vars, bp_vars, tr_vars, soe_vars, rar_vars>>

\* another event constructed after the first
ConstructEventAgain(a) ==
    /\ sme.type = "SendMessageEvent"
    /\ sme_prev = NotConstructed
    /\ sme_raised = NotConstructed
    /\ sme_prev' = sme
    /\ sme_args' = a
    /\ sme' = SendMessageEvent(a)
    /\ UNCHANGED sme_raised
    /\ UNCHANGED <<dispatch_vars, bp_vars, tr_vars, soe_vars, rar_vars>>

AssignEvent(field, value) ==
    LET done == frozen_setattr(sme, field, value) IN
    /\ sme.type = "SendMessageEvent"
    /\ sme_raised = NotConstructed
    /\ sme' = done.obj
    /\ sme_raised' = [error |-> done.raised, before |-> sme]
    /\ UNCHANGED <<sme_args, sme_prev>>
    /\ UNCHANGED <<dispatch_vars, bp_vars, tr_vars, soe_vars, rar_vars>>

NextSME ==
    \/ ConstructEvent
    \/ \E a \in SendMessageEventArgs : ConstructEventAgain(a)
    \/ \E a \in EventAssignments : AssignEvent(a[1], a[2])

SpecSME == InitSME /\ [][NextSME]_vars

IsEvent(x) == x.type = "SendMessageEvent"

\* C14: the queue_identifier of a SendMessageEvent is
\* QueueIdentifier(recipient, canonical_identifier) of its own fields, so two
\* events with equal recipient and equal canonical_identifier have equal
\* queue identifiers whatever their message identifiers; a construction
\* that passes a queue_identifier is refused; and an assignment to a field
\* of the event raises and leaves the event, queue_identifier included, as
\* it was.
C14_QueueIdentifierDerived ==
    /\ IsEvent(sme) =>
          /\ sme.queue_identifier.type = "QueueIdentifier"
          /\ sme.queue_identifier.recipient = sme.recipient
          /\ sme.queue_identifier.canonical_identifier = sme.canonical_identifier
          /\ sme.recipient = sme_args.recipient
          /\ sme.canonical_identifier = sme_args.canonical_identifier
    /\ ( /\ IsEvent(sme) /\ IsEvent(sme_prev)
         /\ sme.recipient = sme_prev.recipient
         /\ sme.canonical_identifier = sme_prev.canonical_identifier ) =>
           sme.queue_identifier = sme_prev.queue_identifier
    /\ (sme # NotConstructed /\ sme_args.queue_identifier # Omitted) =>
           (sme.type = "TypeError" /\ ~IsEvent(sme))
    /\ sme_raised # NotConstructed =>
          /\ sme_raised.error.type = "FrozenInstanceError"
          /\ sme = sme_raised.before

\* two events of one queue with different message identifiers
C14_Witness ==
    /\ IsEvent(sme) /\ IsEvent(sme_prev)
    /\ sme.recipient = sme_prev.recipient
    /\ sme.canonical_identifier = sme_prev.canonical_identifier
    /\ sme.message_identifier # sme_prev.message_identifier
    /\ sme.queue_identifier = sme_prev.queue_identifier
    /\ sme_raised # NotConstructed
    /\ sme.queue_identifier # OtherQueue

(***************************************************************************)
(* TransitionResult.__eq__ and __ne__.  The operands are values: a State   *)
(* is a dataclass and compares by its fields, a list by its elements in    *)
(* order.                                                                  *)
(***************************************************************************)
\* the events left out of the comparison
TransitionResult_eq_StateOnly(self_, other) ==
    IF ~(other.type = "TransitionResult") THEN FALSE
    ELSE self_.new_state = other.new_state

\* isinstance(other, TransitionResult) and self.new_state == other.new_state
\* and self.events == other.events
TransitionResult_eq(self_, other) ==
    IF ~(other.type = "TransitionResult") THEN FALSE
    ELSE IF ~(self_.new_state = other.new_state) THEN FALSE
    ELSE self_.events = other.events

\* not self.__eq__(other)
TransitionResult_ne(self_, other) == ~TransitionResult_eq(self_, other)

ComparedStates == {NoneV, StateV(0, NoneV), StateV(1, NoneV)}

ComparedEvents ==
    {<<>>, <<Ev("EventTick")>>, <<Ev("SendInit"), Ev("EventCreated")>>,
     <<Ev("EventCreated"), Ev("SendInit")>>}

TransitionResults ==
    {TransitionResult(st, evs) : st \in ComparedStates, evs \in ComparedEvents}

\* values that are no TransitionResult: None, and tuples of a state and events
NotTransitionResults ==
    {NoneV} \cup
    {[type |-> "tuple", new_state |-> st, events |-> <<>>] : st \in ComparedStates}

InitTR ==
    /\ InitDispatch(CHOOSE r \in Reducers : TRUE, NoneV)
    /\ NoBalanceProof
    /\ NoSendMessageEvent
    /\ tr_args \in [self : TransitionResults,
                     other : TransitionResults \cup NotTransitionResults]
    /\ tr_out = NotConstructed
    /\ NoSuccessOrError
    /\ NoRequests

\* self == other and self != other are evaluated
Compare ==
    /\ tr_out = NotConstructed
    /\ tr_out' = [eq |-> TransitionResult_eq(tr_args.self, tr_args.other),
                  ne |-> TransitionResult_ne(tr_args.self, tr_args.other)]
    /\ UNCHANGED tr_args
    /\ UNCHANGED <<dispatch_vars, bp_vars, sme_vars, soe_vars, rar_vars>>

\* the operands exchanged
Exchange ==
    /\ tr_out # NotConstructed
    /\ tr_args.other.type = "TransitionResult"
    /\ tr_args.other # tr_args.self
    /\ tr_args' = [self |-> tr_args.other, other |-> tr_args.self]
    /\ tr_out' = NotConstructed
    /\ UNCHANGED <<dispatch_vars, bp_vars, sme_vars, soe_vars, rar_vars>>

NextTR == Compare \/ Exchange

SpecTR == InitTR /\ [][NextTR]_vars

\* the two sequences hold the same events in the same order
SameEvents(a, b) == Len(a) = Len(b) /\ \A i \in 1..Len(a) : a[i] = b[i]

\* C15: a TransitionResult equals a value exactly when that value is a
\* TransitionResult with an equal new_state and the same events in the same
\* order; it equals no value that is not a TransitionResult; and != returns
\* the negation of ==.
C15_StructuralEquality ==
    tr_out # NotConstructed =>
        LET a == tr_args.self
            b == tr_args.other
        IN  /\ tr_out.eq <=>
                  ( /\ b.type = "TransitionResult"
                    /\ a.new_state = b.new_state
                    /\ SameEvents(a.events, b.events) )
            /\ b.type # "TransitionResult" => ~tr_out.eq
            /\ tr_out.ne <=> ~tr_out.eq

\* equal states, the same two events in another order: not equal
C15_Witness ==
    /\ tr_out # NotConstructed
    /\ tr_args.other.type = "TransitionResult"
    /\ tr_args.self.new_state = tr_args.other.new_state
    /\ tr_args.self.events = <<Ev("SendInit"), Ev("EventCreated")>>
    /\ tr_args.other.events = <<Ev("EventCreated"), Ev("SendInit")>>
    /\ tr_out.eq = FALSE
    /\ tr_out.ne = TRUE

(***************************************************************************)
(* SuccessOrError.  A string is the sequence of its characters.            *)
(***************************************************************************)
\* most messages given to one SuccessOrError
MaxMessages == 3

\* " / "
Separator == <<" ", "/", " ">>

\* sep.join(xs)
RECURSIVE join(_, _)
join(sep, xs) ==
    IF xs = <<>> THEN <<>>
    ELSE IF Len(xs) = 1 THEN xs[1]
    ELSE xs[1] \o sep \o join(sep, Tail(xs))

\* SuccessOrError(*error_messages)
SuccessOrError(error_messages) ==
    [type |-> "SuccessOrError",
     error_messages |-> [i \in 1..Len(error_messages) |-> error_messages[i]]]

\* not bool(self.error_messages)
ok(obj) == ~(Len(obj.error_messages) # 0)

\* not self.ok
fail(obj) == ~ok(obj)

\* __bool__
bool(obj) == ok(obj)

\* the separator written after every message, the last included
as_error_message_trailing(obj) ==
    join(<<>>, [i \in 1..Len(obj.error_messages) |-> obj.error_messages[i] \o Separator])

\* " / ".join(self.error_messages)
as_error_message(obj) == join(Separator, obj.error_messages)

\* the messages tried: "", "a", "b", "cd"
Messages == {<<>>, <<"a">>, <<"b">>, <<"c", "d">>}

InitSOE ==
    /\ InitDispatch(CHOOSE r \in Reducers : TRUE, NoneV)
    /\ NoBalanceProof
    /\ NoSendMessageEvent
    /\ NoComparison
    /\ soe_args \in SeqsUpTo(Messages, MaxMessages)
    /\ soe = NotConstructed
    /\ soe_out = NotConstructed
    /\ NoRequests

ConstructSuccessOrError ==
    /\ soe = NotConstructed
    /\ soe' = SuccessOrError(soe_args)
    /\ UNCHANGED <<soe_args, soe_out>>
    /\ UNCHANGED <<dispatch_vars, bp_vars, sme_vars, tr_vars, rar_vars>>

\* the properties of the object are read
ReadSuccessOrError ==
    /\ soe # NotConstructed
    /\ soe_out = NotConstructed
    /\ soe_out' = [ok |-> ok(soe), fail |-> fail(soe), bool |-> bool(soe),
                   as_error_message |-> as_error_message(soe)]
    /\ UNCHANGED <<soe_args, soe>>
    /\ UNCHANGED <<dispatch_vars, bp_vars, sme_vars, tr_vars, rar_vars>>

NextSOE == ConstructSuccessOrError \/ ReadSuccessOrError

SpecSOE == InitSOE /\ [][NextSOE]_vars

\* where message i begins in the joined string: after the messages before
\* it and a separator for each
RECURSIVE Offset(_, _)
Offset(msgs, i) ==
    IF i = 1 THEN 0 ELSE Offset(msgs, i - 1) + Len(msgs[i - 1]) + Len(Separator)

\* C16: ok is true exactly when no message was given; fail is the negation
\* of ok; the truth value of the object is ok; and as_error_message is the
\* empty string for no messages and otherwise holds message 1, " / ",
\* message 2, " / ", ..., the last message, character for character and with
\* nothing after the last message.
C16_SuccessOrError ==
    soe_out # NotConstructed =>
        LET n   == Len(soe_args)
            out == soe_out.as_error_message
        IN  /\ soe_out.ok <=> (soe_args = <<>>)
            /\ soe_out.fail <=> ~soe_out.ok
            /\ soe_out.bool <=> soe_out.ok
            /\ n = 0 => out = <<>>
            /\ n > 0 => Len(out) = Offset(soe_args, n) + Len(soe_args[n])
            /\ \A i \in 1..n : \A k \in 1..Len(soe_args[i]) :
                   out[Offset(soe_args, i) + k] = soe_args[i][k]
            /\ \A i \in 1..(n - 1) : \A k \in 1..Len(Separator) :
                   out[Offset(soe_args, i) + Len(soe_args[i]) + k] = Separator[k]

\* SuccessOrError("a", "", "cd"): "a /  / cd"
C16_Witness ==
    /\ soe_out # NotConstructed
    /\ soe_args = << <<"a">>, <<>>, <<"c", "d">> >>
    /\ soe_out.ok = FALSE
    /\ soe_out.fail = TRUE
    /\ soe_out.as_error_message = <<"a", " ", "/", " ", " ", "/", " ", "c", "d">>

(***************************************************************************)
(* The publication of current_state.                                       *)
(***************************************************************************)
\* the state of a call of t: what current_state must be while the batch is
\* folded, after the call has raised, and after it has returned
PublishedAtomically(t) ==
    LET m == self(t) IN
    /\ pc[t] \in {"loop", "raised"} =>
          /\ current_state[m] = pre[t].ref
          /\ Current(m) = pre[t].val
          /\ current_state[m].type = "State" =>
                 current_state[m].addr \notin Reach(heap[m], next_state[t])
    /\ pc[t] = "returned" =>
          /\ position[t] = Len(state_changes[t])
          /\ invoked[t] = Len(state_changes[t])
          /\ current_state[m] = returned[t].state
          /\ Current(m) = steps[t][Len(steps[t])]

\* a step that assigns current_state of m is the return of a call on m that
\* has processed its whole batch, or the construction of a manager
AssignedOnlyOnReturn(m) ==
    current_state'[m] # current_state[m] =>
        \E t \in Ctx :
            /\ self(t) = m
            /\ \/ /\ pc[t] = "loop" /\ pc'[t] = "returned"
                   /\ position[t] = Len(state_changes[t])
                   /\ current_state[m] = pre[t].ref
                   /\ current_state'[m] = next_state[t]
               \/ pc[t] # "idle" /\ pc'[t] = "idle"

\* C17: within a call of dispatch current_state is assigned once at most,
\* by the return, after every change of the batch has been processed and
\* checked; while the batch is folded, and after a call that raised at some
\* change, current_state is the object, with the value, it was when the call
\* began, and no state of a round is current_state.
C17_AtomicPublish ==
    /\ [](\A t \in Ctx : PublishedAtomically(t))
    /\ [][\A m \in Mgr : AssignedOnlyOnReturn(m)]_vars

\* a call that raised at its second change, after the first had changed
\* the copy in place
C17_Witness ==
    \E t \in Ctx :
        /\ pc[t] = "raised"
        /\ state_changes[t] = <<"Block", "Bad">>
        /\ invoked[t] = 2
        /\ state_transition[self(t)].inplace
        /\ pre[t].ref.type = "State"
        /\ Len(steps[t]) = 1
        /\ steps[t][1] # pre[t].val
        /\ current_state[self(t)] = pre[t].ref
        /\ Current(self(t)) = pre[t].val

(***************************************************************************)
(* The copies of a batch.                                                  *)
(***************************************************************************)
\* two references share no object
Disjoint(h, a, b) == Reach(h, a) \cap Reach(h, b) = {}

\* the rounds of the call of t that have been taken over
Rounds(t) == 1..Len(handed[t])

\* C18 as claimed: in every round, the later ones included, the reducer is
\* given an object that shares nothing with the pre-dispatch current_state
\* nor with the object the round before returned, and the object a round
\* returned keeps the value it was returned with.
C18_FreshCopyEveryTransition ==
    \A t \in Ctx : pc[t] \in {"loop", "returned"} =>
        \A i \in Rounds(t) :
            /\ Disjoint(heap[self(t)], handed[t][i].given, pre[t].ref)
            /\ i > 1 =>
                  /\ handed[t][i].given # handed[t][i - 1].returned
                  /\ Disjoint(heap[self(t)], handed[t][i].given,
                              handed[t][i - 1].returned)
                  /\ Val(heap[self(t)], handed[t][i - 1].returned) = steps[t][i - 1]

\* C18, amended: a batch, not each transition, works on a fresh copy.  In
\* the first round the reducer is given a new object, allocated by the call,
\* that shares nothing with the pre-dispatch current_state; in every later
\* round it is given the very object the round before returned.  No round
\* is given, or returns, an object of the pre-dispatch current_state, which
\* keeps its value.
C18_FreshCopyPerBatch ==
    \A t \in Ctx : pc[t] \in {"loop", "returned"} =>
        LET h == heap[self(t)] IN
        /\ Val(h, pre[t].ref) = pre[t].val
        /\ \A i \in Rounds(t) :
              /\ Disjoint(h, handed[t][i].given, pre[t].ref)
              /\ Disjoint(h, handed[t][i].returned, pre[t].ref)
              /\ i = 1 =>
                    /\ handed[t][i].given.type = pre[t].ref.type
                    /\ \A a \in Reach(h, handed[t][i].given) : a > pre[t].mark
              /\ i > 1 => handed[t][i].given = handed[t][i - 1].returned

\* an in-place reducer in its second round has changed the object its first
\* round returned; the pre-dispatch current_state is as it was
C18_Witness ==
    \E t \in Ctx :
        /\ pc[t] = "returned"
        /\ Len(handed[t]) = 2
        /\ state_transition[self(t)].inplace
        /\ pre[t].ref.type = "State"
        /\ handed[t][2].given = handed[t][1].returned
        /\ Val(heap[self(t)], handed[t][1].returned) # steps[t][1]
        /\ Val(heap[self(t)], pre[t].ref) = pre[t].val

(***************************************************************************)
(* Two contexts that call dispatch on one manager, each once, with nothing *)
(* to keep the calls apart: the steps of the two calls interleave.         *)
(***************************************************************************)
\* the states the shared manager may start from
SharedStates == {NoneV, StateV(0, StateV(0, NoneV))}

InitShared ==
    /\ \E r \in Reducers, v \in SharedStates :
          InitManagers(r, v, [t \in Ctx |-> 1])
    /\ InitValues

NextShared ==
    \/ \E t \in Ctx : \E batch \in Batches : pc[t] = "idle" /\ dispatch(t, batch)
    \/ \E t \in Ctx : dispatch_loop(t)
    \/ \E t \in Ctx : dispatch_return(t)

SpecShared == InitShared /\ [][NextShared]_vars

\* the calls of t and u have both returned and each began before the other
\* published: both copied the same current_state
Overlapped(t, u) ==
    /\ t # u /\ self(t) = self(u)
    /\ pc[t] = "returned" /\ pc[u] = "returned"
    /\ pre[t].ref = pre[u].ref

\* C19: nothing keeps a context from entering dispatch while another call
\* on the same manager is in its loop; and when two calls on one manager
\* have overlapped and both returned, each returned the fold of its own
\* batch over the state both began from, both batches count as applied, and
\* current_state is the result of one of the two calls: the fold of that
\* call's batch alone.
C19_NoLockLastWriterWins ==
    \A t, u \in Ctx :
        /\ (t # u /\ self(t) = self(u) /\ pc[u] = "loop" /\ pc[t] = "idle") =>
               ENABLED dispatch(t, <<"Block">>)
        /\ Overlapped(t, u) =>
              LET m == self(t) IN
              /\ pre[t].val = pre[u].val
              /\ Val(heap[m], returned[t].state) =
                     FoldState(pre[t].val, state_changes[t])
              /\ Val(heap[m], returned[u].state) =
                     FoldState(pre[u].val, state_changes[u])
              /\ log[m] \in {state_changes[t] \o state_changes[u],
                              state_changes[u] \o state_changes[t]}
              /\ current_state[m] \in {returned[t].state, returned[u].state}
              /\ Current(m) \in {FoldState(pre[t].val, state_changes[t]),
                                  FoldState(pre[u].val, state_changes[u])}

\* two calls that each count a block have both returned; the state has
\* counted one block, not the two of the log
C19_Witness ==
    \E t, u \in Ctx :
        /\ Overlapped(t, u)
        /\ state_changes[t] = <<"Block">>
        /\ state_changes[u] = <<"Block">>
        /\ log[self(t)] = <<"Block", "Block">>
        /\ pre[t].ref.type = "State"
        /\ Current(self(t)) = FoldState(pre[t].val, <<"Block">>)
        /\ Current(self(t)) # FoldState(pre[t].val, log[self(t)])

(***************************************************************************)
(* return_after_retries (raiden/network/utils.py).  Each request is a step *)
(* whose outcome the server and the network choose.  A duration is counted *)
(* in whole units and the average is kept as the fraction durations /      *)
(* samples.                                                                *)
(***************************************************************************)
\* most requests asked for
MaxSamples == 3

Urls == {"https://a", "https://b"}

Samples == (-1)..MaxSamples

\* what response.elapsed may be
Elapsed == {1, 2}

\* the exceptions a request may raise: the first three are an OSError or a
\* requests.RequestException, the last is neither
Exceptions == {"OSError", "RequestException", "ConnectionError", "ValueError"}

\* the outcomes of  requests.request(...); response.raise_for_status()
Outcomes ==
    [kind : {"ok"}, elapsed : Elapsed]
        \cup [kind : {"status"}, code : {404, 500}]
        \cup [kind : {"raises"}, exc : Exceptions]

\* except (OSError, requests.RequestException); raise_for_status raises
\* HTTPError, a RequestException
Caught(o) ==
    \/ o.kind = "status"
    \/ o.kind = "raises" /\ o.exc \in {"OSError", "RequestException", "ConnectionError"}

\* one request more than asked for
MoreRequestsInclusive(issued, samples) == issued <= samples

\* for _ in range(samples)
MoreRequests(issued, samples) == issued < samples

Raised(exc) == [type |-> "raised", exc |-> exc]

\* durations / samples
Divide(durations, samples) ==
    IF samples = 0 THEN Raised("ZeroDivisionError")
    ELSE [type |-> "float", num |-> durations, den |-> samples]

InitRAR ==
    /\ InitDispatch(CHOOSE r \in Reducers : TRUE, NoneV)
    /\ NoBalanceProof
    /\ NoSendMessageEvent
    /\ NoComparison
    /\ NoSuccessOrError
    /\ rar_args \in [url : Urls, samples : Samples]
    /\ rar_pc = "idle"
    /\ rar_requests = <<>>
    /\ rar_durations = 0
    /\ rar_result = NotConstructed

\* the call: durations = 0.0
return_after_retries ==
    /\ rar_pc = "idle"
    /\ rar_pc' = "loop"
    /\ rar_durations' = 0
    /\ UNCHANGED <<rar_args, rar_requests, rar_result>>
    /\ UNCHANGED <<dispatch_vars, bp_vars, sme_vars, tr_vars, soe_vars>>

\* one round of the loop: the request, and on success the sum and the sleep
request(o) ==
    /\ rar_pc = "loop"
    /\ MoreRequests(Len(rar_requests), rar_args.samples)
    /\ rar_requests' = Append(rar_requests, o)
    /\ IF o.kind = "ok"
       THEN /\ rar_durations' = rar_durations + o.elapsed
            /\ UNCHANGED <<rar_pc, rar_result>>
       ELSE /\ rar_pc' = "done"
            /\ rar_result' = IF Caught(o) THEN NoneV ELSE Raised(o.exc)
            /\ UNCHANGED rar_durations
    /\ UNCHANGED rar_args
    /\ UNCHANGED <<dispatch_vars, bp_vars, sme_vars, tr_vars, soe_vars>>

\* return (url, durations / samples)
return_url ==
    LET average == Divide(rar_durations, rar_args.samples) IN
    /\ rar_pc = "loop"
    /\ ~MoreRequests(Len(rar_requests), rar_args.samples)
    /\ rar_pc' = "done"
    /\ rar_result' = IF average.type = "raised" THEN average
                     ELSE [type |-> "tuple", url |-> rar_args.url,
                           average |-> average]
    /\ UNCHANGED <<rar_args, rar_requests, rar_durations>>
    /\ UNCHANGED <<dispatch_vars, bp_vars, sme_vars, tr_vars, soe_vars>>

NextRAR ==
    \/ return_after_retries
    \/ \E o \in Outcomes : request(o)
    \/ return_url

SpecRAR == InitRAR /\ [][NextRAR]_vars

\* the requests issued so far that completed with a success status
Succeeded(i) == rar_requests[i].kind = "ok"

AllSucceeded == \A i \in 1..Len(rar_requests) : Succeeded(i)

\* the sum of response.elapsed over the first n requests
RECURSIVE SumElapsed(_)
SumElapsed(n) == IF n = 0 THEN 0 ELSE SumElapsed(n - 1) + rar_requests[n].elapsed

ReturnedPair == rar_result.type = "tuple"

\* C20 as claimed: the call returns the pair (url, average) exactly when
\* `samples` requests were issued and each succeeded; and a request that
\* raises or returns an error status is the last one issued and the call has
\* returned None.
C20_UrlAfterSamplesSuccesses ==
    rar_pc = "done" =>
        /\ ReturnedPair <=>
              (Len(rar_requests) = rar_args.samples /\ AllSucceeded)
        /\ \A i \in 1..Len(rar_requests) : ~Succeeded(i) =>
              (i = Len(rar_requests) /\ rar_result = NoneV)

\* C20, amended: for samples >= 1 the call returns the pair (url, average
\* of the durations) exactly when `samples` requests were issued and each
\* succeeded; the first request that returns an error status or raises an
\* OSError or a RequestException is the last one issued and the call
\* returns None; a request that raises another exception is the last one
\* issued and the exception leaves the call.  No call issues more than
\* `samples` requests or a request after one that failed; with samples = 0
\* no request is issued and the division raises ZeroDivisionError.
C20_UrlAfterSamplesSuccessesFrom1 ==
    LET n == Len(rar_requests) IN
    /\ n <= (IF rar_args.samples > 0 THEN rar_args.samples ELSE 0)
    /\ \A i \in 1..(n - 1) : Succeeded(i)
    /\ rar_pc = "loop" => AllSucceeded
    /\ (rar_pc = "done" /\ rar_args.samples >= 1) =>
          /\ ReturnedPair <=> (n = rar_args.samples /\ AllSucceeded)
          /\ ReturnedPair =>
                /\ rar_result.url = rar_args.url
                /\ rar_result.average.num = SumElapsed(n)
                /\ rar_result.average.den = rar_args.samples
          /\ ~AllSucceeded =>
                IF Caught(rar_requests[n]) THEN rar_result = NoneV
                ELSE rar_result = Raised(rar_requests[n].exc)
    /\ (rar_pc = "done" /\ rar_args.samples = 0) =>
          (n = 0 /\ rar_result = Raised("ZeroDivisionError"))

\* three requests, the third answered with status 500: None after exactly
\* three requests
C20_Witness ==
    /\ rar_pc = "done"
    /\ rar_args.samples = 3
    /\ Len(rar_requests) = 3
    /\ Succeeded(1) /\ Succeeded(2)
    /\ rar_requests[3] = [kind |-> "status", code |-> 500]
    /\ rar_result = NoneV
    /\ rar_durations = 3

====
